---- MODULE Spec2Model ----
(***************************************************************************)
(* Model of the multi-broker market data pipeline                          *)
(* (examples/finance/market-data/multi_broker_pipeline.py).                *)
(*                                                                         *)
(*   Spec         one AlpacaDataProvider.stream_trades call: WebSocket     *)
(*                handshake, receive loop, dispatch to the sink, transport *)
(*                faults and task cancellation.                            *)
(*   FairSpec     Spec with the event loop's scheduling of a cancelled     *)
(*                task.                                                    *)
(*   SpecFactory  DataProviderFactory.create_provider and the capability   *)
(*                calls of the ETRADEDataProvider stub.                    *)
(*   SpecScope    MarketDataProvider.__aenter__ / __aexit__ on one         *)
(*                provider instance.                                       *)
(***************************************************************************)
EXTENDS Integers, Sequences, FiniteSets, TLC

VARIABLES
    \* ---- AlpacaDataProvider.stream_trades --------------------------------
    api_key,      \* self.api_key
    api_secret,   \* self.api_secret
    symbols,      \* the symbols argument
    pc,           \* position of the coroutine
    ws,           \* the connection of `async with websockets.connect(...)`
    connections,  \* number of websockets.connect calls that opened a socket
    io,           \* history: completed connect / send / recv operations
    authReply,    \* auth_response
    subReply,     \* sub_response
    nMsgs,        \* messages taken from `async for message in websocket`
    pending,      \* items of `data` the inner for loop has not taken yet
    sinkLog,      \* arguments of the callback invocations, in order
    received,     \* history: envelopes of the array messages received
    cancelReq,    \* Task.cancel() was called on the task running the call
    raised,       \* exception that left the call
    leaving,      \* exception with which the `async with` block was left
    fault,        \* history: transport fault injected by the environment
    \* ---- DataProviderFactory / ETRADEDataProvider -------------------------
    vendor,       \* the provider_type argument
    provider,     \* the created provider instance
    created,      \* outcome of create_provider
    calls,        \* capability calls made on the stub, with their outcomes
    \* ---- MarketDataProvider.__aenter__ / __aexit__ ------------------------
    session,      \* self.session (0 is None)
    sessions,     \* state of every aiohttp.ClientSession created so far
    scopes,       \* scopes entered and not yet exited
    closing,      \* scopes suspended in `await self.session.close()`
    exited,       \* history: scopes exited
    \* ---- AlpacaDataProvider REST calls -----------------------------------
    call,         \* the REST call completed last: arguments, response, outcome
    httpGets,     \* history: GET requests issued on self.session
    inflight,     \* per operation, the calls issued and not ended
    inBody,       \* per operation, those of them suspended in `await response.json()`
    \* ---- a second stream_trades call on the same provider ----------------
    pc2,          \* its position
    ws2,          \* its connection: "none", "open", "closed"
    io2,          \* history: operations on its connection
    nMsgs2,       \* messages its loop has received
    sink2,        \* history: records handed to its sink
    raised2,      \* the exception that left it
    leaving2,     \* exception with which its `async with` block was left
    \* ---- core.schemas -----------------------------------------------------
    built,        \* the construction made last: class, arguments, outcome
    \* ---- WalkForwardAnalysis ----------------------------------------------
    train_period, \* self.train_period
    test_period,  \* self.test_period
    step,         \* self.step
    dates,        \* the dates of df
    outcomes,     \* what optimize_func / backtest_func do for each window
    wfpc,         \* position in run_walk_forward
    current_date, \* local of split_data
    splits,       \* local of split_data
    window,       \* i of `for i, (train_df, test_df) in enumerate(splits)`
    all_results,  \* local of run_walk_forward
    summary,      \* what run_walk_forward ended with
    \* ---- AgentQualityScorer -----------------------------------------------
    scored        \* the _calculate_tier_distribution call made last

streamVars == <<api_key, api_secret, symbols, pc, ws, connections, io,
                authReply, subReply, nMsgs, pending, sinkLog, received,
                cancelReq, raised, leaving, fault>>
factoryVars == <<vendor, provider, created, calls>>
scopeVars == <<session, sessions, scopes, closing, exited>>
restVars == <<call, httpGets, inflight, inBody>>
peerVars == <<pc2, ws2, io2, nMsgs2, sink2, raised2, leaving2>>
walkVars == <<train_period, test_period, step, dates, outcomes, wfpc, current_date,
              splits, window, all_results, summary>>
libVars == <<peerVars, built, walkVars, scored>>
vars == <<streamVars, factoryVars, scopeVars, restVars, libVars>>

\* ------------------------------------------------------------------ bounds
\* Messages one stream_trades call takes from the connection.
MaxMsgs == 2
\* Capability calls made on one stub provider.
MaxCalls == 2
\* Scope entries on one provider instance.
MaxEnters == 3
\* GET requests issued on one session.
MaxGets == 3
\* Last day a dataset of the walk-forward analysis can hold (days from 0).
MaxDay == 4
\* Scores in one list.
MaxScores == 3

\* ------------------------------------------------------------ python values
None == "None"

\* dict.get(key): the value, or None when the key is absent.
DictGet(d, key) == IF key \in DOMAIN d THEN d[key] ELSE None

\* d[key] raises KeyError when the key is absent.
HasKey(d, key) == key \in DOMAIN d

\* ======================================================================
\*  AlpacaDataProvider.stream_trades
\* ======================================================================

\* Requested symbol lists.
SymbolLists == {<<"AAPL", "TSLA">>, <<"TSLA">>}

\* Replies a server can give to the auth and to the subscribe message.
Replies == {"ack", "reject", "unparseable"}

\* Event envelopes (JSON objects) the transport can deliver.
TradeAAPL == [T |-> "t", S |-> "AAPL", t |-> 1500, p |-> 10, s |-> 3]
TradeTSLA == [T |-> "t", S |-> "TSLA", t |-> 1000, p |-> 20, s |-> 1]
StatusEnv == [T |-> "success", msg |-> "connected"]
ErrorEnv == [T |-> "error", msg |-> "limit"]
\* Without a type tag: item.get("T") is None.
UntaggedEnv == [msg |-> "ping"]
\* A trade of AAPL older than TradeAAPL.
TradeAAPLOld == [T |-> "t", S |-> "AAPL", t |-> 1200, p |-> 9, s |-> 4]
\* Tagged as a trade, without the price and size fields.
BadTrade == [T |-> "t", S |-> "AAPL", t |-> 1700]

\* Inbound messages: JSON arrays of envelopes, text that is not JSON, and a
\* JSON object where an array is expected.
Batches ==
    { <<>>,
      <<StatusEnv, UntaggedEnv, TradeAAPLOld>>,
      <<TradeTSLA, TradeAAPL>>,
      <<TradeAAPL, ErrorEnv, TradeTSLA>>,
      <<TradeAAPL, BadTrade, TradeTSLA>> }
Messages ==
    {[kind |-> "array", items |-> b, keys |-> 0] : b \in Batches}
        \cup {[kind |-> "invalid", items |-> <<>>, keys |-> 0],
              [kind |-> "object", items |-> <<>>, keys |-> 0],
              [kind |-> "object", items |-> <<>>, keys |-> 1]}

AwaitPoints ==
    {"connect", "send_auth", "recv_auth", "send_sub", "recv_sub", "loop", "close"}

\* auth_data
AuthData == [action |-> "auth", key |-> api_key, secret |-> api_secret]

\* subscribe_data
\* (faulty variant: only the first symbol is subscribed)
SubscribeDataFirstOnly == [action |-> "subscribe", trades |-> <<Head(symbols)>>]
SubscribeData == [action |-> "subscribe", trades |-> symbols]

\* item.get("T") == "t"
\* (faulty variant: the type tag is not tested)
IsTradeMessageAny(item) == TRUE
IsTradeMessage(item) == DictGet(item, "T") = "t"

\* item["S"], item["t"], item["p"], item["s"]: a missing key raises KeyError.
TranslationRaises(item) ==
    ~(HasKey(item, "S") /\ HasKey(item, "t") /\ HasKey(item, "p") /\ HasKey(item, "s"))

\* datetime.fromtimestamp(ms / 1000): whole seconds and the millisecond rest.
FromTimestamp(ms) == [sec |-> ms \div 1000, msec |-> ms % 1000]

\* MarketData(symbol=item["S"], timestamp=..., open=0, high=0, low=0,
\*            close=float(item["p"]), volume=int(item["s"]), provider="alpaca");
\* prices and sizes are whole numbers here, which float() and int() keep.
\* (faulty variant: the trade price is filed as the open and the size dropped)
TradeRecordPriceAsOpen(item) ==
    [symbol |-> item["S"], timestamp |-> FromTimestamp(item["t"]),
     open |-> item["p"], high |-> 0, low |-> 0,
     close |-> 0, volume |-> 0,
     vwap |-> None, trade_count |-> None, provider |-> "alpaca"]
TradeRecord(item) ==
    [symbol |-> item["S"], timestamp |-> FromTimestamp(item["t"]),
     open |-> 0, high |-> 0, low |-> 0,
     close |-> item["p"], volume |-> item["s"],
     vwap |-> None, trade_count |-> None, provider |-> "alpaca"]

\* callback(trade)
\* (faulty variant: the newest trade is handed over ahead of earlier ones)
InvokeSinkFront(log, trade) == <<trade>> \o log
InvokeSink(log, trade) == Append(log, trade)

\* Leaving `async with websockets.connect(...)` closes the connection.
\* (faulty variant: the connection is left as it is)
CloseWsLeak == ws
CloseWs == IF ws = "open" THEN "closed" ELSE ws

\* An exception leaves the call: the `async with` block is exited, and
\* `except WebSocketException` logs and re-raises.
\* (faulty variant: a WebSocketException is swallowed and the call reconnects)
UnwindReconnect(exc) ==
    /\ ws' = CloseWs
    /\ IF exc = "WebSocketException"
          THEN pc' = "connect" /\ raised' = "none"
          ELSE pc' = (IF exc = "CancelledError" THEN "cancelled" ELSE "failed")
               /\ raised' = exc
\* (faulty variant: the connection is closed on the normal path only)
UnwindNoClose(exc) ==
    /\ ws' = ws
    /\ raised' = exc
    /\ pc' = IF exc = "CancelledError" THEN "cancelled" ELSE "failed"
\* (faulty variant: the exception is logged and the loop goes on)
UnwindSwallow(exc) ==
    /\ ws' = ws
    /\ raised' = "none"
    /\ pc' = IF exc = "CancelledError" THEN "cancelled" ELSE "loop"
Unwind(exc) ==
    /\ ws' = CloseWs
    /\ raised' = exc
    /\ pc' = IF exc = "CancelledError" THEN "cancelled" ELSE "failed"

\* An exception is raised in the body of `async with websockets.connect(...)`
\* with the connection open: the exit of the block awaits the closing
\* handshake before the exception goes on.
Leave(exc) ==
    /\ pc' = "close"
    /\ leaving' = exc
    /\ UNCHANGED <<ws, raised>>

InitStream ==
    /\ api_key = "PK"
    /\ api_secret \in {"SK", None}
    /\ symbols \in SymbolLists
    /\ pc = "connect"
    /\ ws = "none"
    /\ connections = 0
    /\ io = <<>>
    /\ authReply = "none"
    /\ subReply = "none"
    /\ nMsgs = 0
    /\ pending = <<>>
    /\ sinkLog = <<>>
    /\ received = <<>>
    /\ cancelReq = FALSE
    /\ raised = "none"
    /\ leaving = "none"
    /\ fault = "none"

\* async with websockets.connect(self.WS_URL) as websocket
Connect ==
    /\ pc = "connect" /\ ~cancelReq
    /\ ws' = "open"
    /\ connections' = connections + 1
    /\ io' = Append(io, [op |-> "connect", msg |-> None])
    /\ pc' = "send_auth"
    /\ UNCHANGED <<factoryVars, scopeVars, restVars, libVars, api_key, api_secret, symbols, authReply, subReply, nMsgs,
                   pending, sinkLog, received, cancelReq, raised, fault, leaving>>

\* websockets.connect fails: the handshake (a WebSocketException) or the
\* socket (an OSError).
ConnectFault ==
    /\ pc = "connect" /\ ~cancelReq
    /\ \E exc \in {"WebSocketException", "OSError"} :
          /\ fault' = exc
          /\ Unwind(exc)
    /\ UNCHANGED <<factoryVars, scopeVars, restVars, libVars, api_key, api_secret, symbols, connections, io, authReply,
                   subReply, nMsgs, pending, sinkLog, received, cancelReq, leaving>>

\* await websocket.send(json.dumps(auth_data))
SendAuth ==
    /\ pc = "send_auth" /\ ~cancelReq
    /\ io' = Append(io, [op |-> "send", msg |-> AuthData])
    /\ pc' = "recv_auth"
    /\ UNCHANGED <<factoryVars, scopeVars, restVars, libVars, api_key, api_secret, symbols, ws, connections, authReply,
                   subReply, nMsgs, pending, sinkLog, received, cancelReq,
                   raised, fault, leaving>>

\* auth_response = await websocket.recv()
RecvAuth ==
    /\ pc = "recv_auth" /\ ~cancelReq
    /\ \E r \in Replies :
          /\ authReply' = r
          /\ io' = Append(io, [op |-> "recv", msg |-> r])
    /\ pc' = "send_sub"
    /\ UNCHANGED <<factoryVars, scopeVars, restVars, libVars, api_key, api_secret, symbols, ws, connections, subReply,
                   nMsgs, pending, sinkLog, received, cancelReq, raised, fault, leaving>>

\* await websocket.send(json.dumps(subscribe_data))
SendSubscribe ==
    /\ pc = "send_sub" /\ ~cancelReq
    /\ io' = Append(io, [op |-> "send", msg |-> SubscribeData])
    /\ pc' = "recv_sub"
    /\ UNCHANGED <<factoryVars, scopeVars, restVars, libVars, api_key, api_secret, symbols, ws, connections, authReply,
                   subReply, nMsgs, pending, sinkLog, received, cancelReq,
                   raised, fault, leaving>>

\* sub_response = await websocket.recv()
RecvSubscribe ==
    /\ pc = "recv_sub" /\ ~cancelReq
    /\ \E r \in Replies :
          /\ subReply' = r
          /\ io' = Append(io, [op |-> "recv", msg |-> r])
    /\ pc' = "loop"
    /\ UNCHANGED <<factoryVars, scopeVars, restVars, libVars, api_key, api_secret, symbols, ws, connections, authReply,
                   nMsgs, pending, sinkLog, received, cancelReq, raised, fault, leaving>>

\* `async for message in websocket` yields a message; data = json.loads(message)
\* raises on text that is not JSON; iterating a JSON object yields its keys,
\* strings, on which item.get raises AttributeError, and nothing when it has
\* no key.
LoopRecv ==
    /\ pc = "loop" /\ ~cancelReq
    /\ nMsgs < MaxMsgs
    /\ nMsgs' = nMsgs + 1
    /\ \E m \in Messages :
          /\ io' = Append(io, [op |-> "next", msg |-> m.kind])
          /\ CASE m.kind = "invalid" ->
                    /\ Leave("JSONDecodeError")
                    /\ UNCHANGED <<pending, received>>
               [] m.kind = "object" /\ m.keys > 0 ->
                    /\ Leave("AttributeError")
                    /\ UNCHANGED <<pending, received>>
               [] OTHER ->
                    /\ pending' = m.items
                    /\ received' = received \o m.items
                    /\ pc' = IF m.items = <<>> THEN "loop" ELSE "dispatch"
                    /\ UNCHANGED <<ws, raised, leaving>>
    /\ UNCHANGED <<factoryVars, scopeVars, restVars, libVars, api_key, api_secret, symbols, connections, authReply,
                   subReply, sinkLog, cancelReq, fault>>

\* One iteration of `for item in data`.
Dispatch ==
    /\ pc = "dispatch"
    /\ LET item == Head(pending)
           rest == Tail(pending)
           goOn == /\ pending' = rest
                   /\ pc' = IF rest = <<>> THEN "loop" ELSE "dispatch"
                   /\ UNCHANGED <<ws, raised, leaving>>
       IN  IF IsTradeMessage(item)
              THEN IF TranslationRaises(item)
                      THEN /\ Leave("KeyError")
                           /\ UNCHANGED <<pending, sinkLog>>
                      ELSE /\ sinkLog' = InvokeSink(sinkLog, TradeRecord(item))
                           /\ \/ goOn
                              \/ /\ pending' = rest
                                 /\ Leave("SinkError")
              ELSE /\ goOn
                   /\ UNCHANGED sinkLog
    /\ UNCHANGED <<factoryVars, scopeVars, restVars, libVars, api_key, api_secret, symbols, connections, io, authReply,
                   subReply, nMsgs, received, cancelReq, fault>>

\* The closing handshake is over: the exception goes on and leaves the call.
CloseDone ==
    /\ pc = "close"
    /\ ~cancelReq \/ leaving = "CancelledError"
    /\ Unwind(leaving)
    /\ UNCHANGED <<factoryVars, scopeVars, restVars, libVars, api_key, api_secret, symbols, connections, io, authReply,
                   subReply, nMsgs, pending, sinkLog, received, cancelReq,
                   leaving, fault>>

\* The connection ends normally: `async for` finishes and the call returns.
LoopEnd ==
    /\ pc = "loop" /\ ~cancelReq
    /\ ws' = CloseWs
    /\ pc' = "returned"
    /\ UNCHANGED <<factoryVars, scopeVars, restVars, libVars, api_key, api_secret, symbols, connections, io, authReply,
                   subReply, nMsgs, pending, sinkLog, received, cancelReq,
                   raised, fault, leaving>>

\* send, recv or the iteration raises a WebSocketException (connection lost).
TransportFault ==
    /\ pc \in AwaitPoints \ {"connect", "close"} /\ ~cancelReq
    /\ fault' = "WebSocketException"
    /\ Unwind("WebSocketException")
    /\ UNCHANGED <<factoryVars, scopeVars, restVars, libVars, api_key, api_secret, symbols, connections, io, authReply,
                   subReply, nMsgs, pending, sinkLog, received, cancelReq, leaving>>

\* The caller cancels the task while the call is suspended at an await.
Cancel ==
    /\ pc \in AwaitPoints /\ ~cancelReq
    /\ cancelReq' = TRUE
    /\ UNCHANGED <<factoryVars, scopeVars, restVars, libVars, api_key, api_secret, symbols, pc, ws, connections, io,
                   authReply, subReply, nMsgs, pending, sinkLog, received,
                   raised, fault, leaving>>

\* The event loop resumes the task by raising CancelledError at that await:
\* in the body with the connection open the block is left through its exit;
\* at connect there is no connection, and in the exit itself nothing is
\* awaited any more.
ObserveCancel ==
    /\ pc \in AwaitPoints /\ cancelReq
    /\ pc = "close" => leaving # "CancelledError"
    /\ IF pc \in {"connect", "close"}
          THEN Unwind("CancelledError") /\ UNCHANGED leaving
          ELSE Leave("CancelledError")
    /\ UNCHANGED <<factoryVars, scopeVars, restVars, libVars, api_key, api_secret, symbols, connections, io, authReply,
                   subReply, nMsgs, pending, sinkLog, received, cancelReq,
                   fault>>

StreamNext ==
    \/ Connect
    \/ ConnectFault
    \/ SendAuth
    \/ RecvAuth
    \/ SendSubscribe
    \/ RecvSubscribe
    \/ LoopRecv
    \/ Dispatch
    \/ CloseDone
    \/ LoopEnd
    \/ TransportFault
    \/ Cancel
    \/ ObserveCancel

\* ======================================================================
\*  DataProviderFactory.create_provider and the ETRADEDataProvider stub
\* ======================================================================

\* class DataProvider(Enum)
DataProvider == {"ALPACA", "FIDELITY", "ETRADE", "POLYGON", "IEX"}

\* Vendor identifiers a caller can pass: the enum's members, and a value
\* that is no member of it.
VendorIds == DataProvider \cup {"ROBINHOOD"}

\* Vendors with a MarketDataProvider subclass in the module.
Implemented == {"ALPACA", "ETRADE"}

NoProvider == [cls |-> None, api_key |-> None, api_secret |-> None]

\* MarketDataProvider.__init__ (self.session, None at first, is the variable
\* session)
NewProvider(cls, key, secret) ==
    [cls |-> cls, api_key |-> key, api_secret |-> secret]

\* DataProviderFactory.create_provider
CreateProvider(provider_type, key, secret) ==
    IF provider_type = "ALPACA"
       THEN [raised |-> "none", value |-> NewProvider("AlpacaDataProvider", key, secret)]
    ELSE IF provider_type = "ETRADE"
       THEN [raised |-> "none", value |-> NewProvider("ETRADEDataProvider", key, secret)]
    ELSE IF provider_type = "FIDELITY"
       THEN [raised |-> "NotImplementedError", value |-> NoProvider]
    ELSE [raised |-> "ValueError", value |-> NoProvider]

Capabilities == {"get_bars", "get_latest_quote", "stream_trades", "get_options_chain"}

\* The four methods of ETRADEDataProvider: what the call raises, or that it
\* returns and the list it returns.
ETradeCall(cap) ==
    CASE cap = "get_bars" ->
            [cap |-> cap, raised |-> "none", returned |-> TRUE, value |-> <<>>]
      [] cap = "get_latest_quote" ->
            [cap |-> cap, raised |-> "NotImplementedError", returned |-> FALSE, value |-> <<>>]
      [] cap = "stream_trades" ->
            [cap |-> cap, raised |-> "NotImplementedError", returned |-> FALSE, value |-> <<>>]
      [] cap = "get_options_chain" ->
            [cap |-> cap, raised |-> "none", returned |-> TRUE, value |-> <<>>]

InitFactory ==
    /\ vendor \in VendorIds
    /\ provider = NoProvider
    /\ created = "none"
    /\ calls = <<>>

\* provider = DataProviderFactory.create_provider(vendor, api_key, api_secret)
Create ==
    /\ created = "none"
    /\ LET r == CreateProvider(vendor, api_key, api_secret)
       IN  /\ created' = (IF r.raised = "none" THEN "instance" ELSE r.raised)
           /\ provider' = r.value
    /\ UNCHANGED <<streamVars, scopeVars, restVars, libVars, vendor, calls>>

\* A capability call on the created stub: its outcome is appended to calls.
StubCall(cap) ==
    /\ cap \in Capabilities
    /\ created = "instance"
    /\ provider.cls = "ETRADEDataProvider"
    /\ Len(calls) < MaxCalls
    /\ calls' = Append(calls, ETradeCall(cap))

\* await provider.get_bars(symbol, start, end)
ETradeGetBars ==
    /\ StubCall("get_bars")
    /\ UNCHANGED <<streamVars, scopeVars, restVars, libVars, vendor, provider, created>>

\* await provider.get_latest_quote(symbol)
ETradeGetLatestQuote ==
    /\ StubCall("get_latest_quote")
    /\ UNCHANGED <<streamVars, scopeVars, restVars, libVars, vendor, provider, created>>

\* await provider.stream_trades(symbols, callback)
ETradeStreamTrades ==
    /\ StubCall("stream_trades")
    /\ UNCHANGED <<streamVars, scopeVars, restVars, libVars, vendor, provider, created>>

\* await provider.get_options_chain(symbol)
ETradeGetOptionsChain ==
    /\ StubCall("get_options_chain")
    /\ UNCHANGED <<streamVars, scopeVars, restVars, libVars, vendor, provider, created>>

FactoryNext ==
    \/ Create
    \/ ETradeGetBars
    \/ ETradeGetLatestQuote
    \/ ETradeStreamTrades
    \/ ETradeGetOptionsChain

\* ======================================================================
\*  MarketDataProvider.__aenter__ / __aexit__
\* ======================================================================

\* Exceptions the body of a scope can end with ("none": it ends normally).
BodyOutcomes == {"none", "ClientError", "CancelledError"}

InitScope ==
    /\ session = 0
    /\ sessions = <<>>
    /\ scopes = <<>>
    /\ closing = {}
    /\ exited = <<>>

\* self.session = aiohttp.ClientSession(); return self
AEnter ==
    /\ Len(sessions) < MaxEnters
    /\ sessions' = Append(sessions, "open")
    /\ session' = Len(sessions) + 1
    /\ scopes' = Append(scopes, Len(sessions) + 1)
    /\ UNCHANGED <<streamVars, factoryVars, restVars, libVars, closing, exited>>

\* if self.session: await self.session.close()
\* The scope that exits is the innermost one of a task; scopes of different
\* tasks sharing the instance exit in any order. __aexit__ returns None, so
\* the body's exception propagates.
\* The session is closed on the call of close(), and the scope is suspended
\* in the await until close() returns.
AExit ==
    \E i \in 1..Len(scopes), exc \in BodyOutcomes :
        /\ sessions' = IF session # 0
                          THEN [sessions EXCEPT ![session] = "closed"]
                          ELSE sessions
        /\ scopes' = [j \in 1..(Len(scopes) - 1) |->
                         IF j < i THEN scopes[j] ELSE scopes[j + 1]]
        /\ closing' = closing \cup {[opened |-> scopes[i], exc |-> exc]}
        /\ UNCHANGED <<streamVars, factoryVars, restVars, libVars, session, exited>>

\* close() returns and __aexit__ with it: the exception of the body goes on.
AExitDone ==
    \E c \in closing :
        /\ closing' = closing \ {c}
        /\ exited' = Append(exited, [opened |-> c.opened, exc |-> c.exc,
                                     propagated |-> c.exc])
        /\ UNCHANGED <<streamVars, factoryVars, restVars, libVars, session,
                       sessions, scopes>>

\* The task is cancelled while it awaits close(): CancelledError leaves
\* __aexit__ in place of the exception of the body.
AExitCancel ==
    \E c \in closing :
        /\ closing' = closing \ {c}
        /\ exited' = Append(exited, [opened |-> c.opened, exc |-> c.exc,
                                     propagated |-> "CancelledError"])
        /\ UNCHANGED <<streamVars, factoryVars, restVars, libVars, session,
                       sessions, scopes>>

ScopeNext ==
    \/ AEnter
    \/ AExit
    \/ AExitDone
    \/ AExitCancel

\* ======================================================================
\*  AlpacaDataProvider.get_bars / get_latest_quote / get_options_chain
\* ======================================================================

\* Datetimes are whole days; a datetime carries its UTC offset (None: naive).
\* On the wire a timestamp is ISO-8601 text ending in "Z".
IsoZ(d) == [day |-> d, suffix |-> "Z"]

\* datetime.fromisoformat(text.replace("Z", "+00:00"))
FromIsoFormat(text) == [day |-> text.day, tz |-> "+00:00"]

\* Symbols asked for.
RestSymbols == {"AAPL", "TSLA"}

\* Bar entries of a response.
Bar2 == [t |-> IsoZ(2), o |-> 10, h |-> 12, l |-> 9, c |-> 11, v |-> 100, vw |-> 11, n |-> 5]
Bar3 == [t |-> IsoZ(3), o |-> 11, h |-> 13, l |-> 10, c |-> 12, v |-> 120]
Bar4 == [t |-> IsoZ(4), o |-> 12, h |-> 12, l |-> 12, c |-> 12, v |-> 0, vw |-> 0, n |-> 0]
\* Dated after every requested range.
Bar9 == [t |-> IsoZ(9), o |-> 12, h |-> 14, l |-> 11, c |-> 13, v |-> 90]
\* High below low.
BarInverted == [t |-> IsoZ(4), o |-> 12, h |-> 10, l |-> 13, c |-> 12, v |-> 80]
\* Without its close.
BarMalformed == [t |-> IsoZ(3), o |-> 11, h |-> 13, l |-> 10, v |-> 120]

BarLists ==
    { <<>>,
      <<Bar2, Bar3, Bar4>>,
      <<Bar3, Bar2>>,
      <<Bar2, Bar9>>,
      <<Bar2, BarInverted>>,
      <<Bar2, BarMalformed, Bar3>> }

\* What a GET can end with: the request fails in the client (err), or a
\* response arrives with a status and a body that is JSON (data) or not.
NoData == [none |-> TRUE]
Response(err, status, json, data) ==
    [err |-> err, status |-> status, json |-> json, data |-> data]
FailedResponses ==
    { Response("ClientConnectionError", 0, FALSE, NoData),
      Response("none", 500, TRUE, NoData),
      Response("none", 404, TRUE, NoData),
      Response("none", 200, FALSE, NoData) }
BarResponses ==
    FailedResponses
        \cup {Response("none", 200, TRUE, [bars |-> b]) : b \in BarLists}
        \cup {Response("none", 200, TRUE, [symbol |-> "AAPL"])}

\* Quotes of a response.
Quote3 == [t |-> IsoZ(3), bp |-> 10, ap |-> 13]
Quote4 == [t |-> IsoZ(4), bp |-> 20, ap |-> 20]
QuoteMalformed == [t |-> IsoZ(3), bp |-> 10]
QuoteResponses ==
    FailedResponses
        \cup {Response("none", 200, TRUE, [quote |-> q]) :
                 q \in {Quote3, Quote4, QuoteMalformed}}
        \cup {Response("none", 200, TRUE, [symbol |-> "AAPL"])}

\* Option snapshots of a response.
OptionsResponses ==
    FailedResponses
        \cup {Response("none", 200, TRUE, [snapshots |-> n]) : n \in {0, 2}}

\* The exceptions of aiohttp that derive from aiohttp.ClientError.
ClientErrors == {"ClientConnectionError", "ClientResponseError", "ContentTypeError"}

\* `async with self.session.get(...) as response`, response.raise_for_status()
\* and `await response.json()`: the exception they raise for a response
\* ("none": the body has been parsed). resp.err is the exception raised at
\* the await itself: an error of the client, or CancelledError when the task
\* is cancelled there.
HttpError(resp) ==
    IF resp.err # "none" THEN resp.err
    ELSE IF resp.status >= 400 THEN "ClientResponseError"
    ELSE IF ~resp.json THEN "ContentTypeError"
    ELSE "none"

\* What a call ends with.
Raise(exc) == [raised |-> exc, returned |-> FALSE, value |-> <<>>]
Return(value) == [raised |-> "none", returned |-> TRUE, value |-> value]

\* bar["t"], bar["o"], bar["h"], bar["l"], bar["c"], bar["v"]
BarKeys == {"t", "o", "h", "l", "c", "v"}
BarRaises(bar) == ~(BarKeys \subseteq DOMAIN bar)

\* float(bar.get("vw", 0)) if bar.get("vw") else None, and likewise "n":
\* an absent key and a zero both give None.
OptionalNumber(bar, key) ==
    IF key \in DOMAIN bar /\ bar[key] # 0 THEN bar[key] ELSE None

\* MarketData(symbol=symbol, timestamp=..., open=float(bar["o"]), ...,
\*            volume=int(bar["v"]), vwap=..., trade_count=..., provider="alpaca")
BarRecord(symbol, bar) ==
    [symbol |-> symbol, timestamp |-> FromIsoFormat(bar["t"]),
     open |-> bar["o"], high |-> bar["h"], low |-> bar["l"],
     close |-> bar["c"], volume |-> bar["v"],
     vwap |-> OptionalNumber(bar, "vw"),
     trade_count |-> OptionalNumber(bar, "n"), provider |-> "alpaca"]

\* data.get("bars", [])
\* (faulty variant: the first entry is left out)
BarsOfTail(data) ==
    IF "bars" \in DOMAIN data /\ data["bars"] # <<>> THEN Tail(data["bars"]) ELSE <<>>
BarsOf(data) == IF "bars" \in DOMAIN data THEN data["bars"] ELSE <<>>

\* AlpacaDataProvider.get_bars after the GET: ClientError is logged and
\* raised again; any other exception leaves the call as it is.
\* (faulty variant: a failed request is answered with an empty list)
GetBarsResultEmptyOnFailure(symbol, start, end, resp) ==
    IF HttpError(resp) # "none" THEN Return(<<>>)
    ELSE LET bars == BarsOf(resp.data)
         IN  IF \E i \in 1..Len(bars) : BarRaises(bars[i])
                THEN Raise("KeyError")
                ELSE Return([i \in 1..Len(bars) |-> BarRecord(symbol, bars[i])])
GetBarsResult(symbol, start, end, resp) ==
    IF HttpError(resp) # "none" THEN Raise(HttpError(resp))
    ELSE LET bars == BarsOf(resp.data)
         IN  IF \E i \in 1..Len(bars) : BarRaises(bars[i])
                THEN Raise("KeyError")
                ELSE Return([i \in 1..Len(bars) |-> BarRecord(symbol, bars[i])])

\* quote["t"], quote["bp"], quote["ap"]
QuoteRaises(data) ==
    \/ "quote" \notin DOMAIN data
    \/ ~({"t", "bp", "ap"} \subseteq DOMAIN data["quote"])

\* (float(quote["bp"]) + float(quote["ap"])) / 2, as a fraction.
\* (faulty variant: the bid alone)
MidPriceBid(bp, ap) == [num |-> bp, den |-> 1]
MidPrice(bp, ap) == [num |-> bp + ap, den |-> 2]

\* AlpacaDataProvider.get_latest_quote after the GET.
GetLatestQuoteResult(symbol, resp) ==
    IF HttpError(resp) # "none" THEN Raise(HttpError(resp))
    ELSE IF QuoteRaises(resp.data) THEN Raise("KeyError")
    ELSE LET quote == resp.data["quote"]
         IN  Return(<<[symbol |-> symbol, timestamp |-> FromIsoFormat(quote["t"]),
                       open |-> 0, high |-> 0, low |-> 0,
                       close |-> MidPrice(quote["bp"], quote["ap"]),
                       volume |-> 0, vwap |-> None, trade_count |-> None,
                       provider |-> "alpaca"]>>)

\* AlpacaDataProvider.get_options_chain after the GET: 404 returns [] before
\* raise_for_status(); ClientError is logged and [] returned; a parsed body
\* gives `options`, which nothing is appended to.
\* (faulty variant: a parsed body gives one option per snapshot)
GetOptionsChainResultParsing(symbol, expiration, resp) ==
    IF resp.err = "CancelledError" THEN Raise(resp.err)
    ELSE IF resp.err # "none" THEN Return(<<>>)
    ELSE IF resp.status = 404 THEN Return(<<>>)
    ELSE IF HttpError(resp) # "none" THEN Return(<<>>)
    ELSE Return([i \in 1..resp.data["snapshots"] |-> [underlying |-> symbol]])
\* (faulty variant: only 404 is absorbed, any other failure is raised)
GetOptionsChainResultRaising(symbol, expiration, resp) ==
    IF resp.err # "none" THEN Raise(resp.err)
    ELSE IF resp.status = 404 THEN Return(<<>>)
    ELSE IF HttpError(resp) # "none" THEN Raise(HttpError(resp))
    ELSE Return(<<>>)
GetOptionsChainResult(symbol, expiration, resp) ==
    IF resp.err = "CancelledError" THEN Raise(resp.err)
    ELSE IF resp.err # "none" THEN Return(<<>>)
    ELSE IF resp.status = 404 THEN Return(<<>>)
    ELSE IF HttpError(resp) # "none" THEN Return(<<>>)
    ELSE Return(<<>>)

NoCall == [op |-> "none"]

RestOps == {"get_bars", "get_latest_quote", "get_options_chain"}

IdleRest ==
    /\ call = NoCall
    /\ httpGets = 0
    /\ inflight = [op \in RestOps |-> 0]
    /\ inBody = [op \in RestOps |-> 0]

\* The calls are made on an open session.
\* (faulty variant: one operation at a time on a provider instance)
SessionOpenExclusive ==
    /\ session # 0 /\ sessions[session] = "open"
    /\ \A op \in DOMAIN inflight : inflight[op] = 0
    /\ pc \notin {"loop", "dispatch"}
SessionOpen == session # 0 /\ sessions[session] = "open"

\* The call builds its request and is suspended in
\* `async with self.session.get(...) as response`.
IssueGet(op) ==
    /\ SessionOpen
    /\ httpGets < MaxGets
    /\ inflight' = [inflight EXCEPT ![op] = @ + 1]
    /\ httpGets' = httpGets + 1
    /\ UNCHANGED <<factoryVars, scopeVars, libVars, call, inBody>>

\* bars = await provider.get_bars(symbol, start, end)
BeginGetBars == IssueGet("get_bars") /\ UNCHANGED <<streamVars>>
\* quote = await provider.get_latest_quote(symbol)
BeginGetLatestQuote == IssueGet("get_latest_quote") /\ UNCHANGED <<streamVars>>
\* chain = await provider.get_options_chain(symbol, expiration)
BeginGetOptionsChain == IssueGet("get_options_chain") /\ UNCHANGED <<streamVars>>

\* The head of the response arrives with status 200: raise_for_status()
\* passes and the call is suspended again, in `data = await response.json()`.
ResponseHead(op) ==
    /\ inflight[op] > inBody[op]
    /\ inBody' = [inBody EXCEPT ![op] = @ + 1]
    /\ UNCHANGED <<streamVars, factoryVars, scopeVars, libVars, call, httpGets,
                   inflight>>

AwaitBody == \E op \in RestOps : ResponseHead(op)

\* The call runs to its end: from session.get when the request fails or is
\* answered by another status than 200, from response.json() when the body
\* of a 200 response has been read (or the await there has raised).
CompleteWith(op, symbol, range, expiration, resp) ==
    /\ IF resp.status = 200
          THEN /\ inBody[op] > 0
               /\ inBody' = [inBody EXCEPT ![op] = @ - 1]
          ELSE /\ inflight[op] > inBody[op]
               /\ UNCHANGED inBody
    /\ call' =
          CASE op = "get_bars" ->
                 [op |-> op, symbol |-> symbol, start |-> range[1],
                  end |-> range[2], resp |-> resp,
                  out |-> GetBarsResult(symbol, range[1], range[2], resp)]
            [] op = "get_latest_quote" ->
                 [op |-> op, symbol |-> symbol, resp |-> resp,
                  out |-> GetLatestQuoteResult(symbol, resp)]
            [] OTHER ->
                 [op |-> op, symbol |-> symbol, expiration |-> expiration,
                  resp |-> resp,
                  out |-> GetOptionsChainResult(symbol, expiration, resp)]
    /\ inflight' = [inflight EXCEPT ![op] = @ - 1]
    /\ UNCHANGED <<streamVars, factoryVars, scopeVars, libVars, httpGets>>

EndGetBars ==
    \E symbol \in RestSymbols, range \in {<<1, 5>>, <<2, 2>>}, resp \in BarResponses :
        CompleteWith("get_bars", symbol, range, None, resp)

EndGetLatestQuote ==
    \E symbol \in RestSymbols, resp \in QuoteResponses :
        CompleteWith("get_latest_quote", symbol, <<1, 5>>, None, resp)

EndGetOptionsChain ==
    \E symbol \in RestSymbols, expiration \in {None, "2024-01-19"},
       resp \in OptionsResponses :
        CompleteWith("get_options_chain", symbol, <<1, 5>>, expiration, resp)

\* The task of a call is cancelled at the await it is suspended at, in
\* session.get (no status yet) or in response.json(): CancelledError is no
\* aiohttp.ClientError and leaves the call.
CancelGet ==
    \E op \in RestOps, status \in {0, 200} :
        CompleteWith(op, "AAPL", <<1, 5>>, None,
                     Response("CancelledError", status, FALSE, NoData))

RestNext ==
    \/ BeginGetBars
    \/ BeginGetLatestQuote
    \/ BeginGetOptionsChain
    \/ AwaitBody
    \/ EndGetBars
    \/ EndGetLatestQuote
    \/ EndGetOptionsChain
    \/ CancelGet

\* ---- the calls beside one another and beside the stream ----------------

\* The body a call suspended in response.json() is completed with there.
InFlightResponses(op) ==
    CASE op = "get_bars" ->
            {Response("none", 200, TRUE, [bars |-> <<Bar2, Bar3, Bar4>>])}
      [] op = "get_latest_quote" ->
            {Response("none", 200, TRUE, [quote |-> Quote3])}
      [] OTHER ->
            {Response("none", 200, TRUE, [snapshots |-> 0])}

CompleteGet(op) ==
    \E resp \in InFlightResponses(op) :
        CompleteWith(op, "AAPL", <<1, 5>>, None, resp)

EndGet == \E op \in RestOps : CompleteGet(op)

\* task = asyncio.create_task(provider.stream_trades(symbols, callback)),
\* inside `async with provider`.
StartStream ==
    /\ pc = "idle"
    /\ scopes # <<>>
    /\ pc' = "connect"
    /\ UNCHANGED <<factoryVars, scopeVars, restVars, libVars, api_key, api_secret, symbols, ws,
                   connections, io, authReply, subReply, nMsgs, pending, sinkLog,
                   received, cancelReq, raised, fault, leaving>>

\* `async with provider:` entered once on the instance.
EnterScope == sessions = <<>> /\ AEnter

\* ======================================================================
\*  core.schemas: MarketData and OptionsQuote
\* ======================================================================

\* Decimal prices and integer volumes given to a constructor.
Amounts == {-1, 0, 2}

\* datetime.now() at the construction, and expirations around it (days).
Now == 5

NoBuilt == [cls |-> "none"]

\* What a construction ends with: the instance exists unless __post_init__
\* raised.
Built(cls, args, exc) ==
    [cls |-> cls, args |-> args, raised |-> exc, constructed |-> (exc = "none")]

\* MarketData.__post_init__
MarketDataPostInit(a) ==
    IF a.high < a.low THEN "ValueError"
    ELSE IF a.open < 0 \/ a.close < 0 THEN "ValueError"
    ELSE IF a.volume < 0 THEN "ValueError"
    ELSE "none"

\* OptionsQuote.__post_init__
OptionsQuotePostInit(a) ==
    IF a.option_type \notin {"CALL", "PUT"} THEN "ValueError"
    ELSE IF a.bid > a.ask THEN "ValueError"
    ELSE IF a.strike <= 0 THEN "ValueError"
    ELSE IF a.expiration <= Now THEN "ValueError"
    ELSE "none"

\* MarketData(symbol, timestamp, open, high, low, close, volume, provider, timeframe)
MakeMarketData ==
    /\ \E o \in Amounts, h \in Amounts, l \in Amounts, c \in Amounts, v \in Amounts :
          LET a == [open |-> o, high |-> h, low |-> l, close |-> c, volume |-> v]
          IN  built' = Built("MarketData", a, MarketDataPostInit(a))
    /\ UNCHANGED <<streamVars, factoryVars, scopeVars, restVars, peerVars, walkVars, scored>>

\* OptionsQuote(symbol, underlying, strike, expiration, option_type, bid, ask,
\*              last, volume, open_interest)
MakeOptionsQuote ==
    /\ \E ty \in {"CALL", "PUT", "call"}, b \in {0, 2}, k \in {0, 2}, st \in {0, 2},
          e \in {4, 5, 6}, v \in {-1, 2}, oi \in {-1, 0} :
          LET a == [option_type |-> ty, bid |-> b, ask |-> k, strike |-> st,
                    expiration |-> e, volume |-> v, open_interest |-> oi]
          IN  built' = Built("OptionsQuote", a, OptionsQuotePostInit(a))
    /\ UNCHANGED <<streamVars, factoryVars, scopeVars, restVars, peerVars, walkVars, scored>>

SchemasNext ==
    \/ MakeMarketData
    \/ MakeOptionsQuote

\* ======================================================================
\*  strategy.walk_forward: WalkForwardAnalysis
\* ======================================================================

\* Arguments the constructor takes; it checks none of them.
TrainPeriods == {0, 1, 2}
TestPeriods == {1, 2}
Steps == {0, 1, 2}

\* df: a non-empty set of dates.
Datasets == (SUBSET (0..MaxDay)) \ {{}}

\* What optimize_func and backtest_func do for a window.
WindowOutcomes == {"ok", "optimize_raises", "backtest_raises"}

\* Windows followed in one split; step >= 1 yields at most MaxDay + 1.
MaxSplits == MaxDay + 1

\* df[date_column].min(), df[date_column].max()
MinDate(ds) == CHOOSE d \in ds : \A e \in ds : d <= e
MaxDate(ds) == CHOOSE d \in ds : \A e \in ds : e <= d

\* df[(df[date_column] >= lo) & (df[date_column] < hi)]
Between(ds, lo, hi) == {d \in ds : lo <= d /\ d < hi}

\* current_date + timedelta(days=self.train_period + self.test_period) <= end_date
SplitContinues == current_date + train_period + test_period <= MaxDate(dates)

NoSummary == [returned |-> FALSE, raised |-> "none", num_windows |-> 0]

\* summary = {'num_windows': len(all_results), 'avg_return':
\* results_df['total_return'].mean(), ...}: a DataFrame built from an empty
\* list has no 'total_return' column.
Summarise(results) ==
    IF results = <<>>
       THEN [returned |-> FALSE, raised |-> "KeyError", num_windows |-> 0]
       ELSE [returned |-> TRUE, raised |-> "none", num_windows |-> Len(results)]

\* WalkForwardAnalysis(train_period_days, test_period_days, step_days)
\*     .run_walk_forward(df, strategy, optimize_func, backtest_func),
\* at the first test of the loop of split_data.
InitWalk ==
    /\ train_period \in TrainPeriods
    /\ test_period \in TestPeriods
    /\ step \in Steps
    /\ dates \in Datasets
    /\ outcomes = <<>>
    /\ wfpc = "split"
    /\ current_date = MinDate(dates)
    /\ splits = <<>>
    /\ window = 0
    /\ all_results = <<>>
    /\ summary = NoSummary

\* No analysis is run.
IdleWalk ==
    /\ train_period = 1 /\ test_period = 1 /\ step = 1 /\ dates = {0}
    /\ outcomes = <<>> /\ wfpc = "idle" /\ current_date = 0 /\ splits = <<>>
    /\ window = 0 /\ all_results = <<>> /\ summary = NoSummary

\* One iteration of the while loop of split_data.
SplitStep ==
    /\ wfpc = "split"
    /\ SplitContinues
    /\ Len(splits) < MaxSplits
    /\ LET train_end == current_date + train_period
           test_end == train_end + test_period
           train_df == Between(dates, current_date, train_end)
           test_df == Between(dates, train_end, test_end)
       IN  splits' = IF train_df # {} /\ test_df # {}
                        THEN Append(splits, [train |-> train_df, test |-> test_df])
                        ELSE splits
    /\ current_date' = current_date + step
    /\ UNCHANGED <<streamVars, factoryVars, scopeVars, restVars, peerVars, built,
                   scored, train_period, test_period, step, dates, outcomes, wfpc,
                   window, all_results, summary>>

\* The loop condition fails: split_data returns splits.
SplitReturn ==
    /\ wfpc = "split"
    /\ ~SplitContinues
    /\ wfpc' = "windows"
    /\ UNCHANGED <<streamVars, factoryVars, scopeVars, restVars, peerVars, built,
                   scored, train_period, test_period, step, dates, outcomes,
                   current_date, splits, window, all_results, summary>>

\* One iteration of `for i, (train_df, test_df) in enumerate(splits)`:
\* an exception of optimize_func or backtest_func is printed and the loop
\* continues.
RunWindow ==
    /\ wfpc = "windows"
    /\ window < Len(splits)
    /\ \E o \in WindowOutcomes :
          /\ outcomes' = Append(outcomes, o)
          /\ all_results' =
                IF o = "ok"
                   THEN Append(all_results,
                               [window |-> window,
                                train_start |-> MinDate(splits[window + 1].train),
                                train_end |-> MaxDate(splits[window + 1].train),
                                test_start |-> MinDate(splits[window + 1].test),
                                test_end |-> MaxDate(splits[window + 1].test)])
                   ELSE all_results
    /\ window' = window + 1
    /\ UNCHANGED <<streamVars, factoryVars, scopeVars, restVars, peerVars, built,
                   scored, train_period, test_period, step, dates, wfpc,
                   current_date, splits, summary>>

\* results_df = pd.DataFrame(all_results); summary = {...}; return summary
Aggregate ==
    /\ wfpc = "windows"
    /\ window = Len(splits)
    /\ summary' = Summarise(all_results)
    /\ wfpc' = IF Summarise(all_results).returned THEN "returned" ELSE "raised"
    /\ UNCHANGED <<streamVars, factoryVars, scopeVars, restVars, peerVars, built,
                   scored, train_period, test_period, step, dates, outcomes,
                   current_date, splits, window, all_results>>

WalkNext ==
    \/ SplitStep
    \/ SplitReturn
    \/ RunWindow
    \/ Aggregate

\* ======================================================================
\*  scripts/quality-scorer.py: AgentQualityScorer
\* ======================================================================

\* Scores, in tenths (95 is 9.5).
Scores == {60, 65, 72, 75, 80, 95}

\* Lists of up to n scores.
ScoreLists(n) == UNION {[1..k -> Scores] : k \in 0..n}

\* AgentQualityScorer._classify_tier
ClassifyTier(score) ==
    IF score >= 90 THEN "Tier 0 - Meta (Orchestration)"
    ELSE IF score >= 80 THEN "Tier 1 - Foundation"
    ELSE IF score >= 75 THEN "Tier 2 - Specialist"
    ELSE IF score >= 70 THEN "Tier 3 - Expert"
    ELSE IF score >= 65 THEN "Tier 4 - Professional"
    ELSE "Tier 5 - Developing"

\* The keys of `distribution`.
TierKeys ==
    {"Tier 0 - Meta", "Tier 1 - Foundation", "Tier 2 - Specialist",
     "Tier 3 - Expert", "Tier 4 - Professional", "Tier 5 - Developing"}

\* for score in scores: tier = self._classify_tier(score); distribution[tier] += 1
\* -- KeyError for a tier that is no key.
RECURSIVE CountTiers(_, _)
CountTiers(scores, distribution) ==
    IF scores = <<>> THEN [raised |-> "none", returned |-> TRUE, value |-> distribution]
    ELSE LET tier == ClassifyTier(Head(scores))
         IN  IF tier \notin DOMAIN distribution
                THEN [raised |-> "KeyError", returned |-> FALSE, value |-> distribution]
                ELSE CountTiers(Tail(scores),
                                [distribution EXCEPT ![tier] = @ + 1])

\* AgentQualityScorer._calculate_tier_distribution
CalculateTierDistribution(scores) ==
    CountTiers(scores, [t \in TierKeys |-> 0])

NoScored == [scores |-> <<>>, made |-> FALSE]

\* distribution = scorer._calculate_tier_distribution(scores)
TierDistribution ==
    /\ \E scores \in ScoreLists(MaxScores) :
          scored' = [scores |-> scores, made |-> TRUE,
                     out |-> CalculateTierDistribution(scores)]
    /\ UNCHANGED <<streamVars, factoryVars, scopeVars, restVars, peerVars, built,
                   walkVars>>

\* ======================================================================
\*  A second stream_trades call on the same provider
\* ======================================================================
\* The second call runs the code of the first; it is followed from await to
\* await, with one envelope per message.

\* The trade its connection delivers.
TradeMSFT == [T |-> "t", S |-> "MSFT", t |-> 2000, p |-> 30, s |-> 2]

PeerAwaitPoints ==
    {"connect", "send_auth", "recv_auth", "send_sub", "recv_sub", "loop", "close"}

\* `websocket` is a local of the call (async with ... as websocket): what a
\* call does to its connection leaves the connection of the other call as
\* it is.
\* (faulty variant: the calls keep one connection in the provider)
OtherConnectionShared == ws' = ws2'
OtherConnectionKept == ws' = ws

InitPeer ==
    /\ pc2 = "connect"
    /\ ws2 = "none"
    /\ io2 = <<>>
    /\ nMsgs2 = 0
    /\ sink2 = <<>>
    /\ raised2 = "none"
    /\ leaving2 = "none"

\* No second call is made.
IdlePeer ==
    /\ pc2 = "idle" /\ ws2 = "none" /\ io2 = <<>> /\ nMsgs2 = 0
    /\ sink2 = <<>> /\ raised2 = "none" /\ leaving2 = "none"

\* Everything of the first call but its connection stays, and the rest of
\* the provider.
PeerFrame ==
    /\ OtherConnectionKept
    /\ UNCHANGED <<api_key, api_secret, symbols, pc, io, authReply, subReply,
                   nMsgs, pending, sinkLog, received, cancelReq, raised,
                   leaving, fault, factoryVars, scopeVars, restVars, built,
                   walkVars, scored>>

\* async with websockets.connect(self.WS_URL) as websocket
PeerConnect ==
    /\ pc2 = "connect"
    /\ ws2' = "open"
    /\ connections' = connections + 1
    /\ io2' = Append(io2, "connect")
    /\ pc2' = "send_auth"
    /\ PeerFrame
    /\ UNCHANGED <<nMsgs2, sink2, raised2, leaving2>>

\* websockets.connect fails: the handshake (a WebSocketException) or the
\* socket (an OSError).
PeerConnectFault ==
    /\ pc2 = "connect"
    /\ \E exc \in {"WebSocketException", "OSError"} : raised2' = exc
    /\ pc2' = "failed"
    /\ PeerFrame
    /\ UNCHANGED <<connections, ws2, io2, nMsgs2, sink2, leaving2>>

\* await websocket.send(json.dumps(auth_data)); await websocket.recv();
\* await websocket.send(json.dumps(subscribe_data)); await websocket.recv()
PeerHandshake ==
    /\ pc2 \in {"send_auth", "recv_auth", "send_sub", "recv_sub"}
    /\ io2' = Append(io2, IF pc2 \in {"send_auth", "send_sub"} THEN "send" ELSE "recv")
    /\ pc2' = CASE pc2 = "send_auth" -> "recv_auth"
                [] pc2 = "recv_auth" -> "send_sub"
                [] pc2 = "send_sub" -> "recv_sub"
                [] OTHER -> "loop"
    /\ PeerFrame
    /\ UNCHANGED <<connections, ws2, nMsgs2, sink2, raised2, leaving2>>

\* async for message in websocket: data = json.loads(message);
\* for item in data: ... callback(trade)
\* The message is a batch of one trade, or text that is not JSON: the
\* exception of json.loads leaves the `async with` block, whose exit awaits
\* the closing handshake.
PeerRecv ==
    /\ pc2 = "loop"
    /\ nMsgs2 < MaxMsgs
    /\ nMsgs2' = nMsgs2 + 1
    /\ io2' = Append(io2, "next")
    /\ \E m \in {"trade", "invalid"} :
          IF m = "trade"
             THEN /\ sink2' = InvokeSink(sink2, TradeRecord(TradeMSFT))
                  /\ UNCHANGED <<pc2, leaving2>>
             ELSE /\ pc2' = "close"
                  /\ leaving2' = "JSONDecodeError"
                  /\ UNCHANGED sink2
    /\ PeerFrame
    /\ UNCHANGED <<connections, ws2, raised2>>

\* The closing handshake is over: the exception goes on and leaves the call.
PeerCloseDone ==
    /\ pc2 = "close"
    /\ pc2' = IF leaving2 = "CancelledError" THEN "cancelled" ELSE "failed"
    /\ raised2' = leaving2
    /\ ws2' = "closed"
    /\ PeerFrame
    /\ UNCHANGED <<connections, io2, nMsgs2, sink2, leaving2>>

\* The connection ends normally and the call returns.
PeerEnd ==
    /\ pc2 = "loop"
    /\ pc2' = "returned"
    /\ ws2' = "closed"
    /\ PeerFrame
    /\ UNCHANGED <<connections, io2, nMsgs2, sink2, raised2, leaving2>>

\* except websockets.exceptions.WebSocketException: log; raise
PeerFault ==
    /\ pc2 \in PeerAwaitPoints \ {"connect", "close"}
    /\ pc2' = "failed" /\ raised2' = "WebSocketException"
    /\ ws2' = "closed"
    /\ PeerFrame
    /\ UNCHANGED <<connections, io2, nMsgs2, sink2, leaving2>>

\* The task of the call is cancelled at its await: in the body with the
\* connection open the block is left through its exit; at connect there is
\* no connection, and in the exit itself nothing is awaited any more.
PeerCancel ==
    /\ pc2 \in PeerAwaitPoints
    /\ pc2 = "close" => leaving2 # "CancelledError"
    /\ IF pc2 \in {"connect", "close"}
          THEN /\ pc2' = "cancelled" /\ raised2' = "CancelledError"
               /\ ws2' = IF ws2 = "open" THEN "closed" ELSE ws2
               /\ UNCHANGED leaving2
          ELSE /\ pc2' = "close" /\ leaving2' = "CancelledError"
               /\ UNCHANGED <<ws2, raised2>>
    /\ PeerFrame
    /\ UNCHANGED <<connections, io2, nMsgs2, sink2>>

IdleLib == IdlePeer /\ built = NoBuilt /\ IdleWalk /\ scored = NoScored

\* ======================================================================
\*  Specifications
\* ======================================================================

Init == InitStream /\ provider = NoProvider /\ vendor = "ALPACA"
        /\ created = "none" /\ calls = <<>> /\ InitScope /\ IdleRest /\ IdleLib

Next == StreamNext

Spec == Init /\ [][Next]_vars

\* The event loop runs a task whose cancellation was requested, and the
\* closing handshake ends (the library bounds it by its close timeout).
FairSpec == Spec /\ WF_vars(ObserveCancel) /\ WF_vars(CloseDone)

IdleStream ==
    /\ symbols = <<"AAPL">> /\ pc = "idle" /\ ws = "none" /\ connections = 0
    /\ io = <<>> /\ authReply = "none" /\ subReply = "none" /\ nMsgs = 0
    /\ pending = <<>> /\ sinkLog = <<>> /\ received = <<>>
    /\ cancelReq = FALSE /\ raised = "none" /\ leaving = "none" /\ fault = "none"

InitF == /\ api_key \in {"PK", "PK2"} /\ api_secret \in {"SK", None}
         /\ IdleStream /\ InitFactory /\ InitScope /\ IdleRest /\ IdleLib

SpecFactory == InitF /\ [][FactoryNext]_vars

InitS == /\ api_key = "PK" /\ api_secret = "SK" /\ IdleStream
         /\ provider = NewProvider("AlpacaDataProvider", "PK", "SK")
         /\ vendor = "ALPACA" /\ created = "instance" /\ calls = <<>>
         /\ InitScope /\ IdleRest /\ IdleLib

SpecScope == InitS /\ [][ScopeNext]_vars

\* The REST calls of one provider inside `async with provider`.
InitR == /\ api_key = "PK" /\ api_secret = "SK" /\ IdleStream
         /\ provider = NewProvider("AlpacaDataProvider", "PK", "SK")
         /\ vendor = "ALPACA" /\ created = "instance" /\ calls = <<>>
         /\ session = 1 /\ sessions = <<"open">> /\ scopes = <<1>> /\ closing = {}
         /\ exited = <<>>
         /\ IdleRest /\ IdleLib

SpecRest == InitR /\ [][RestNext]_vars

\* A stream_trades task started inside `async with provider`, the scope
\* entered once.
NextL ==
    \/ EnterScope
    \/ AExit
    \/ AExitDone
    \/ AExitCancel
    \/ StartStream
    \/ StreamNext

SpecLifetime == InitS /\ [][NextL]_vars

\* A stream_trades task and REST calls on one provider, its session open:
\* the task is at its first `async for` after an acknowledged handshake.
InitC == /\ api_key = "PK" /\ api_secret = "SK" /\ symbols = <<"AAPL">>
         /\ pc = "loop" /\ ws = "open" /\ connections = 1
         /\ io = << [op |-> "connect", msg |-> None],
                    [op |-> "send", msg |-> AuthData],
                    [op |-> "recv", msg |-> "ack"],
                    [op |-> "send", msg |-> SubscribeData],
                    [op |-> "recv", msg |-> "ack"] >>
         /\ authReply = "ack" /\ subReply = "ack" /\ nMsgs = 0
         /\ pending = <<>> /\ sinkLog = <<>> /\ received = <<>>
         /\ cancelReq = FALSE /\ raised = "none" /\ leaving = "none"
         /\ fault = "none"
         /\ provider = NewProvider("AlpacaDataProvider", "PK", "SK")
         /\ vendor = "ALPACA" /\ created = "instance" /\ calls = <<>>
         /\ session = 1 /\ sessions = <<"open">> /\ scopes = <<1>> /\ closing = {}
         /\ exited = <<>>
         /\ IdleRest /\ IdleLib

NextC ==
    \/ LoopRecv
    \/ Dispatch
    \/ CloseDone
    \/ LoopEnd
    \/ TransportFault
    \/ Cancel
    \/ ObserveCancel
    \/ BeginGetBars
    \/ BeginGetLatestQuote
    \/ BeginGetOptionsChain
    \/ AwaitBody
    \/ EndGet

SpecConcurrent == InitC /\ [][NextC]_vars

\* Constructions of the canonical records.
SpecSchemas == InitS /\ [][SchemasNext]_vars

\* One run_walk_forward call.
InitW == /\ api_key = "PK" /\ api_secret = "SK" /\ IdleStream
         /\ provider = NoProvider /\ vendor = "ALPACA" /\ created = "none"
         /\ calls = <<>> /\ InitScope /\ IdleRest
         /\ IdlePeer /\ built = NoBuilt /\ InitWalk /\ scored = NoScored

SpecWalk == InitW /\ [][WalkNext]_vars

\* The interpreter runs a call that can take a step.
FairSpecWalk ==
    /\ SpecWalk
    /\ WF_vars(SplitStep) /\ WF_vars(SplitReturn)
    /\ WF_vars(RunWindow) /\ WF_vars(Aggregate)

\* Tier distributions.
SpecScores == InitS /\ [][TierDistribution]_vars

\* Two stream_trades calls on one provider.
InitT == /\ api_key = "PK" /\ api_secret = "SK" /\ IdleStream
         /\ provider = NewProvider("AlpacaDataProvider", "PK", "SK")
         /\ vendor = "ALPACA" /\ created = "instance" /\ calls = <<>>
         /\ session = 1 /\ sessions = <<"open">> /\ scopes = <<1>> /\ closing = {}
         /\ exited = <<>>
         /\ IdleRest
         /\ InitPeer /\ built = NoBuilt /\ IdleWalk /\ scored = NoScored

NextT ==
    \/ StartStream
    \/ StreamNext
    \/ PeerConnect
    \/ PeerConnectFault
    \/ PeerHandshake
    \/ PeerRecv
    \/ PeerCloseDone
    \/ PeerEnd
    \/ PeerFault
    \/ PeerCancel

SpecTwoStreams == InitT /\ [][NextT]_vars

\* ======================================================================
\*  Claims
\* ======================================================================

\* Messages passed to websocket.send, in order.
Sends == SelectSeq(io, LAMBDA e : e.op = "send")

\* The envelope carries the trade tag.
TaggedTrade(e) == "T" \in DOMAIN e /\ e["T"] = "t"

\* Envelopes the inner loop has taken from the messages received so far.
Processed == SubSeq(received, 1, Len(received) - Len(pending))

Millis(ts) == ts.sec * 1000 + ts.msec

\* C1: a session whose auth message is answered by a rejection never sends
\* the subscribe message, never enters the receive loop, never returns
\* normally and never invokes the sink.
C1_AuthRejectNeverStreams ==
    authReply = "reject" =>
        /\ Len(Sends) <= 1
        /\ pc \notin {"recv_sub", "loop", "dispatch", "returned"}
        /\ nMsgs = 0
        /\ sinkLog = <<>>

\* C2: every capability call on the stub provider fails with the
\* capability-not-supported error (NotImplementedError) and none returns.
C2_StubNeverReturnsEmpty ==
    \A i \in 1..Len(calls) :
        /\ calls[i].raised = "NotImplementedError"
        /\ ~calls[i].returned

\* C3: create_provider yields an instance of the vendor's class for an
\* implemented vendor, NotImplementedError for a member of DataProvider that
\* has no implementation, and ValueError for a value that is no member.
C3_FactoryOutcomes ==
    created # "none" =>
        /\ vendor \in Implemented =>
              /\ created = "instance"
              /\ provider.cls = (IF vendor = "ALPACA" THEN "AlpacaDataProvider"
                                                     ELSE "ETRADEDataProvider")
        /\ vendor \in DataProvider \ Implemented => created = "NotImplementedError"
        /\ vendor \notin DataProvider => created = "ValueError"

\* C4: once cancellation is requested no message is sent or taken and the
\* sink is not invoked; the cancelled call has its connection closed; and a
\* requested cancellation always ends the call.
C4_CancelClosesAndReturns ==
    /\ [][cancelReq => (sinkLog' = sinkLog /\ io' = io)]_vars
    /\ [](pc = "cancelled" => (ws # "open" /\ raised = "CancelledError"))
    /\ (cancelReq ~> pc = "cancelled")

C4_Witness == pc = "cancelled" /\ ws = "closed" /\ sinkLog # <<>>

\* C5: the sink has been invoked exactly once for each trade envelope the
\* loop has taken, in the order of arrival (message order, then position in
\* the batch); every envelope received has been taken whenever the call
\* awaits the next message or has ended, unless it was ended by an
\* exception of the translation or of the sink.
C5_SinkOrder ==
    LET tr == SelectSeq(Processed, TaggedTrade)
    IN  /\ Len(sinkLog) = Len(tr)
        /\ \A i \in 1..Len(tr) :
              /\ sinkLog[i].symbol = tr[i]["S"]
              /\ Millis(sinkLog[i].timestamp) = tr[i]["t"]
        /\ (pc # "dispatch" /\ leaving \notin {"KeyError", "SinkError"}) =>
              pending = <<>>

C5_Witness ==
    /\ pc = "loop"
    /\ Len(sinkLog) >= 4
    /\ sinkLog[1].symbol = "TSLA" /\ sinkLog[2].symbol = "AAPL"
    /\ sinkLog[3].symbol = "AAPL" /\ sinkLog[4].symbol = "TSLA"

\* C6: taking an envelope that is not tagged as a trade leaves the sink
\* untouched and the stream running.
C6_OtherEnvelopesIgnored ==
    [][(pc = "dispatch" /\ ~TaggedTrade(Head(pending))) =>
          /\ sinkLog' = sinkLog
          /\ pc' \in {"dispatch", "loop"}
          /\ ws' = "open"
          /\ raised' = "none"]_vars

C6_Witness ==
    /\ pc = "loop" /\ ws = "open" /\ raised = "none"
    /\ \E i \in 1..Len(received) : ~TaggedTrade(received[i])
    /\ Len(sinkLog) = 2

\* C7: the operations on the connection are, in order: connect, send the
\* auth message with key and secret, one recv, send the subscribe message
\* with all requested symbols, one recv, and only then messages of the
\* receive loop; nothing is dispatched before the subscribe reply.
HandshakeOps == <<"connect", "send", "recv", "send", "recv">>
C7_HandshakeOrder ==
    /\ \A k \in 1..Len(io) :
          io[k].op = (IF k <= Len(HandshakeOps) THEN HandshakeOps[k] ELSE "next")
    /\ Len(io) >= 2 =>
          io[2].msg = [action |-> "auth", key |-> api_key, secret |-> api_secret]
    /\ Len(io) >= 3 => io[3].msg = authReply
    /\ Len(io) >= 4 => io[4].msg = [action |-> "subscribe", trades |-> symbols]
    /\ Len(io) >= 5 => io[5].msg = subReply
    /\ Len(io) >= 1 => ws # "none"
    /\ (sinkLog # <<>> \/ pending # <<>> \/ nMsgs > 0) =>
          (Len(io) > Len(HandshakeOps) /\ subReply # "none")

C7_Witness == Len(io) > Len(HandshakeOps) /\ sinkLog # <<>> /\ Len(symbols) = 2

\* C8: the receive loop is entered only after an acknowledged subscribe; a
\* rejected or unparseable subscribe reply fails the call without any sink
\* invocation.
C8_SubscribeRejectFails ==
    subReply \in {"reject", "unparseable"} =>
        /\ pc \notin {"loop", "dispatch", "returned"}
        /\ nMsgs = 0
        /\ sinkLog = <<>>

\* C9: after a transport fault the call is in its failed state with that
\* exception raised and the connection not open, nothing more happens (no
\* reconnect, no sink invocation), and a call opens at most one connection.
C9_TransportFaultFails ==
    /\ connections <= 1
    /\ fault # "none" =>
          /\ pc = "failed"
          /\ raised = fault
          /\ ws # "open"
          /\ ~ENABLED Next

C9_Witness ==
    /\ fault = "WebSocketException" /\ pc = "failed" /\ ws = "closed"
    /\ sinkLog # <<>>

\* C10: the session created by the entry of a scope is closed once that
\* scope has been exited, whatever the body's outcome.
C10_ExitedScopeSessionClosed ==
    \A i \in 1..Len(exited) : sessions[exited[i].opened] = "closed"

\* C11: whenever the stream_trades call has ended (normal end of the
\* connection, transport fault, cancellation, exception of the sink,
\* malformed message or envelope) its connection is not open.
C11_SocketClosedOnEveryExit ==
    pc \in {"returned", "failed", "cancelled"} => ws # "open"

C11_Witness ==
    /\ pc = "failed" /\ ws = "closed"
    /\ raised \in {"SinkError", "KeyError", "JSONDecodeError", "AttributeError"}
    /\ sinkLog # <<>>

\* C12: when the scoped use of the provider has ended, normally or by an
\* exception, the HTTP session is closed and no WebSocket opened through
\* the provider is open.
C12_ScopeExitReleasesAll ==
    (exited # <<>> /\ scopes = <<>> /\ closing = {}) =>
        /\ \A i \in 1..Len(sessions) : sessions[i] = "closed"
        /\ ws # "open"

\* C13: while the stream awaits the next inbound message, each REST call
\* can be issued on the open session whatever is in flight, every call in
\* flight can complete whatever the stream does, and the stream can take
\* its next message whatever is in flight.
C13_StreamAndRestIndependent ==
    /\ (/\ pc = "loop" /\ ws = "open"
        /\ session # 0 /\ sessions[session] = "open"
        /\ httpGets < MaxGets) =>
            /\ ENABLED BeginGetBars
            /\ ENABLED BeginGetLatestQuote
            /\ ENABLED BeginGetOptionsChain
    /\ \A op \in RestOps :
          /\ inflight[op] > inBody[op] => ENABLED ResponseHead(op)
          /\ inBody[op] > 0 => ENABLED CompleteGet(op)
    /\ (pc = "loop" /\ ~cancelReq /\ nMsgs < MaxMsgs) => ENABLED LoopRecv

C13_Witness ==
    /\ pc = "loop" /\ ws = "open" /\ sinkLog # <<>>
    /\ inflight["get_bars"] = 1 /\ inBody["get_bars"] = 1
    /\ inflight["get_latest_quote"] = 1 /\ inBody["get_latest_quote"] = 0
    /\ call.op = "get_options_chain" /\ call.out.returned

\* The request failed in the client or was answered with an error status.
TransportFailure(resp) == resp.err \in ClientErrors \/ resp.status >= 400

\* The response was parsed and every bar entry of it can be translated.
WellFormedBars(resp) ==
    /\ HttpError(resp) = "none"
    /\ \A i \in 1..Len(BarsOf(resp.data)) : ~BarRaises(BarsOf(resp.data)[i])

\* C14: for start <= end and every response, the records get_bars returns
\* have non-decreasing timestamps, each within [start, end], and high >= low.
C14_BarsSortedInRangeValid ==
    (call.op = "get_bars" /\ call.out.returned /\ call.start <= call.end) =>
        LET v == call.out.value
        IN  /\ \A i, j \in 1..Len(v) :
                  i < j => v[i].timestamp.day <= v[j].timestamp.day
            /\ \A i \in 1..Len(v) :
                  /\ call.start <= v[i].timestamp.day
                  /\ v[i].timestamp.day <= call.end
                  /\ v[i].high >= v[i].low

\* C15: for a parsed response whose n bar entries are well formed, get_bars
\* returns n records, the i-th built from the i-th entry, each with the
\* requested symbol and provider "alpaca"; a response with no bars (an empty
\* list, or no "bars" key) gives the empty list.
C15_OneRecordPerBar ==
    (call.op = "get_bars" /\ WellFormedBars(call.resp)) =>
        LET bars == IF "bars" \in DOMAIN call.resp.data
                       THEN call.resp.data["bars"] ELSE <<>>
            v == call.out.value
        IN  /\ call.out.returned
            /\ Len(v) = Len(bars)
            /\ \A i \in 1..Len(bars) :
                  /\ v[i].timestamp.day = bars[i]["t"].day
                  /\ v[i].open = bars[i]["o"] /\ v[i].high = bars[i]["h"]
                  /\ v[i].low = bars[i]["l"] /\ v[i].close = bars[i]["c"]
                  /\ v[i].volume = bars[i]["v"]
                  /\ v[i].symbol = call.symbol
                  /\ v[i].provider = "alpaca"

C15_Witness ==
    /\ call.op = "get_bars" /\ call.symbol = "TSLA"
    /\ call.out.returned
    /\ Len(call.out.value) = 3
    /\ call.out.value[3].timestamp.day = 4

\* C16: a bar entry that cannot be translated does not abort get_bars: it
\* is skipped and the well-formed entries of the response are returned.
C16_MalformedBarSkipped ==
    (/\ call.op = "get_bars"
     /\ HttpError(call.resp) = "none"
     /\ \E i \in 1..Len(BarsOf(call.resp.data)) : BarRaises(BarsOf(call.resp.data)[i])) =>
        LET good == SelectSeq(BarsOf(call.resp.data), LAMBDA b : ~BarRaises(b))
        IN  /\ call.out.returned
            /\ Len(call.out.value) = Len(good)
            /\ \A i \in 1..Len(good) : call.out.value[i] = BarRecord(call.symbol, good[i])

\* A step that begins a call issues one GET; a step that ends one issues none.
OneGetPerCall ==
    \A op \in {"get_bars", "get_latest_quote"} :
        /\ inflight'[op] > inflight[op] =>
              /\ inflight'[op] = inflight[op] + 1
              /\ httpGets' = httpGets + 1
        /\ inflight'[op] < inflight[op] =>
              /\ inflight'[op] = inflight[op] - 1
              /\ httpGets' = httpGets
              /\ call'.op = op

\* C17: get_bars and get_latest_quote issue one GET, when they are called,
\* and none after that (no retry); a transport failure (client error or
\* HTTP error status) leaves the call as an error of the aiohttp.ClientError
\* family, with nothing returned; an empty list of bars is returned only
\* for a request that succeeded and carried no bars.
C17_TransportFailurePropagates ==
    /\ [][OneGetPerCall]_vars
    /\ [](call.op \in {"get_bars", "get_latest_quote"} =>
            /\ TransportFailure(call.resp) =>
                  /\ ~call.out.returned
                  /\ call.out.raised \in ClientErrors
                  /\ call.out.value = <<>>
            /\ (call.op = "get_bars" /\ call.out.returned /\ call.out.value = <<>>) =>
                  /\ call.resp.err = "none"
                  /\ call.resp.status = 200
                  /\ call.resp.json
                  /\ ("bars" \in DOMAIN call.resp.data => call.resp.data["bars"] = <<>>))

C17_Witness ==
    /\ call.op = "get_latest_quote"
    /\ call.resp.status = 500
    /\ call.out.raised = "ClientResponseError"
    /\ httpGets = 1 /\ inflight["get_latest_quote"] = 0

\* C18: get_options_chain never raises for a transport failure: for a 404,
\* any other HTTP error status, or a client error, it returns the empty
\* sequence.
C18_OptionsFailureGivesEmpty ==
    (call.op = "get_options_chain" /\ TransportFailure(call.resp)) =>
        /\ call.out.returned
        /\ call.out.raised = "none"
        /\ call.out.value = <<>>

C18_Witness ==
    /\ call.op = "get_options_chain"
    /\ call.resp.status = 500
    /\ call.out.returned /\ call.out.value = <<>>

\* C19: the record get_latest_quote returns has open = high = low = 0,
\* volume = 0 and close = (bid + ask) / 2.
C19_QuoteMidpointZeroFill ==
    (call.op = "get_latest_quote" /\ call.out.returned) =>
        /\ Len(call.out.value) = 1
        /\ LET q == call.out.value[1]
               quote == call.resp.data["quote"]
           IN  /\ q.open = 0 /\ q.high = 0 /\ q.low = 0
               /\ q.volume = 0
               /\ 2 * q.close.num = (quote["bp"] + quote["ap"]) * q.close.den

C19_Witness ==
    /\ call.op = "get_latest_quote" /\ call.out.returned
    /\ call.resp.data["quote"]["bp"] = 10 /\ call.resp.data["quote"]["ap"] = 13
    /\ call.out.value[1].close = [num |-> 23, den |-> 2]

\* C20: the k-th record handed to the sink is the translation of the k-th
\* trade envelope taken: its symbol, close = price, volume = size,
\* open = high = low = 0, the time of the envelope's epoch milliseconds,
\* and provider "alpaca".
C20_SinkRecordIsTranslation ==
    LET tr == SelectSeq(Processed, TaggedTrade)
    IN  \A k \in 1..Len(sinkLog) :
            /\ k <= Len(tr)
            /\ sinkLog[k].symbol = tr[k]["S"]
            /\ sinkLog[k].close = tr[k]["p"]
            /\ sinkLog[k].volume = tr[k]["s"]
            /\ sinkLog[k].open = 0 /\ sinkLog[k].high = 0 /\ sinkLog[k].low = 0
            /\ sinkLog[k].timestamp.sec = tr[k]["t"] \div 1000
            /\ sinkLog[k].timestamp.msec = tr[k]["t"] % 1000
            /\ sinkLog[k].provider = "alpaca"

C20_Witness ==
    /\ Len(sinkLog) >= 2
    /\ sinkLog[1].symbol = "AAPL" /\ sinkLog[1].close = 10 /\ sinkLog[1].volume = 3
    /\ sinkLog[1].timestamp = [sec |-> 1, msec |-> 500]
    /\ sinkLog[2].symbol = "TSLA" /\ sinkLog[2].close = 20 /\ sinkLog[2].volume = 1

\* C21: for each symbol the timestamps of the records handed to the sink
\* are non-decreasing.
C21_SinkTimestampsMonotonic ==
    \A i, j \in 1..Len(sinkLog) :
        (i < j /\ sinkLog[i].symbol = sinkLog[j].symbol) =>
            Millis(sinkLog[i].timestamp) <= Millis(sinkLog[j].timestamp)

\* C22: a constructed MarketData has high >= low, open, high, low and
\* close >= 0 and volume >= 0; arguments breaking one of these give no record.
C22_MarketDataInvariants ==
    (built.cls = "MarketData" /\ built.constructed) =>
        /\ built.args.high >= built.args.low
        /\ built.args.open >= 0 /\ built.args.high >= 0
        /\ built.args.low >= 0 /\ built.args.close >= 0
        /\ built.args.volume >= 0

\* C23: a constructed OptionsQuote has option_type CALL or PUT, bid <= ask,
\* strike > 0, and volume and open_interest >= 0; arguments breaking one of
\* these give no record.
C23_OptionsQuoteInvariants ==
    (built.cls = "OptionsQuote" /\ built.constructed) =>
        /\ built.args.option_type \in {"CALL", "PUT"}
        /\ built.args.bid <= built.args.ask
        /\ built.args.strike > 0
        /\ built.args.volume >= 0
        /\ built.args.open_interest >= 0

\* C24: at most one session created by the provider is open at any time,
\* and none is open once every entered scope has exited.
C24_AtMostOneSessionOpen ==
    /\ Cardinality({i \in 1..Len(sessions) : sessions[i] = "open"}) <= 1
    /\ (scopes = <<>> /\ closing = {}) =>
           \A i \in 1..Len(sessions) : sessions[i] # "open"

\* The exceptions of the sink, the translation and the parsing.
BatchErrors == {"KeyError", "SinkError", "JSONDecodeError", "AttributeError"}

\* C25 (as stated): a call that an exception of the sink, the translation or
\* the parsing has ended has failed with that exception.
C25_ExceptionReachesCaller ==
    (leaving \in BatchErrors /\ pc \in {"returned", "failed", "cancelled"}) =>
        (pc = "failed" /\ raised = leaving)

\* From such an exception on nothing is delivered or taken, and a call that
\* has ended stays as it is.
NothingAfterBatchError ==
    leaving \in BatchErrors =>
        /\ sinkLog' = sinkLog
        /\ io' = io
        /\ leaving' = leaving
        /\ pc \in {"failed", "cancelled"} => (pc' = pc /\ raised' = raised)

\* C25: an envelope that cannot be translated makes the call leave its
\* connection with KeyError and is not delivered; from an exception of the
\* sink, the translation or the parsing on, nothing more is delivered or
\* taken, and the sink has had exactly the trade envelopes taken before it;
\* the call then fails with that exception, or, cancelled while its
\* connection closes, ends with CancelledError; it never returns.
C25_FailureMidBatch ==
    /\ [][(/\ pc = "dispatch"
           /\ TaggedTrade(Head(pending))
           /\ ~({"S", "t", "p", "s"} \subseteq DOMAIN Head(pending))) =>
              /\ pc' = "close"
              /\ leaving' = "KeyError"
              /\ sinkLog' = sinkLog]_vars
    /\ [][NothingAfterBatchError]_vars
    /\ [](leaving \in BatchErrors =>
              LET tr == SelectSeq(Processed, TaggedTrade)
              IN  /\ Len(sinkLog) = Len(tr)
                  /\ \A k \in 1..Len(tr) : sinkLog[k].symbol = tr[k]["S"]
                  /\ \/ pc = "close" /\ raised = "none"
                     \/ pc = "failed" /\ raised = leaving
                     \/ pc = "cancelled" /\ raised = "CancelledError" /\ cancelReq)

C25_Witness ==
    /\ pc = "failed" /\ raised = "SinkError" /\ leaving = "SinkError"
    /\ Len(sinkLog) >= 2
    /\ pending # <<>>
    /\ nMsgs = 2

\* C26: each of two concurrent calls has its own connection and handshake,
\* each sink has only the trades of its own connection, and a call that is
\* running has its connection open whatever has become of the other.
C26_StreamsIndependent ==
    /\ connections = (IF ws # "none" THEN 1 ELSE 0) + (IF ws2 # "none" THEN 1 ELSE 0)
    /\ pc \in {"send_auth", "recv_auth", "send_sub", "recv_sub", "loop", "dispatch",
              "close"} =>
           ws = "open"
    /\ pc2 \in PeerAwaitPoints \ {"connect"} => ws2 = "open"
    /\ pc2 = "loop" =>
           SubSeq(io2, 1, 5) = <<"connect", "send", "recv", "send", "recv">>
    /\ pc \in {"loop", "dispatch"} =>
           /\ Len(io) >= 5
           /\ \A k \in 1..5 : io[k].op = HandshakeOps[k]
    /\ \A k \in 1..Len(sinkLog) : sinkLog[k].symbol # "MSFT"
    /\ \A k \in 1..Len(sink2) : sink2[k].symbol = "MSFT"
    /\ Len(sinkLog) = Len(SelectSeq(Processed, TaggedTrade))

C26_Witness ==
    /\ pc2 \in {"failed", "cancelled"} /\ ws2 = "closed" /\ sink2 # <<>>
    /\ pc = "loop" /\ ws = "open" /\ sinkLog # <<>>
    /\ connections = 2

\* C27: whenever get_options_chain returns, with or without an expiration,
\* also for a 2xx response carrying snapshots, it returns the empty sequence.
C27_OptionsChainAlwaysEmpty ==
    (call.op = "get_options_chain" /\ call.out.returned) => call.out.value = <<>>

C27_Witness ==
    /\ call.op = "get_options_chain"
    /\ call.expiration # None
    /\ call.resp.status = 200 /\ call.resp.json
    /\ call.resp.data["snapshots"] = 2
    /\ call.out.returned /\ call.out.value = <<>>

\* C28: whatever the windows do, run_walk_forward ends by returning a
\* summary whose num_windows is the number of windows that succeeded.
C28_SummaryAlwaysReturned ==
    wfpc \in {"returned", "raised"} =>
        /\ summary.returned
        /\ summary.raised = "none"
        /\ summary.num_windows =
              Cardinality({k \in 1..Len(outcomes) : outcomes[k] = "ok"})

\* C29: split_data comes to an end.
C29_SplitTerminates == <>(wfpc # "split")

\* C30: _calculate_tier_distribution returns, and each bucket holds the
\* number of scores _classify_tier assigns to it.
C30_TierCountsMatch ==
    scored.made =>
        /\ scored.out.returned
        /\ \A t \in TierKeys :
              scored.out.value[t] =
                  Cardinality({k \in 1..Len(scored.scores) :
                                  ClassifyTier(scored.scores[k]) = t})
        /\ \A k \in 1..Len(scored.scores) : ClassifyTier(scored.scores[k]) \in TierKeys

====
